---- MODULE Spec2Model ----
(***************************************************************************)
(* Telegram-bot-monitoring: the scheduled poller (src/src/bot.ts) and the  *)
(* webhook server (src/unnamed/part_000).  Both relay operator commands    *)
(* from Telegram to GitHub workflow dispatches / run queries.              *)
(*                                                                         *)
(* Granularity: JavaScript runs a handler synchronously from one `await`   *)
(* to the next; one action of the model is one such run (the return of the *)
(* awaited call plus all the code up to the next awaited call).            *)
(*                                                                         *)
(* The poller and the webhook server are two deployments of the bot: a run *)
(* of the model is a run of one of them (`mode`).                          *)
(*                                                                         *)
(* Strings: message texts are written without their leading emoji; a chat  *)
(* text is a sequence of atoms, " " being a whitespace atom, so that       *)
(* String.prototype.trim has something to do.                              *)
(***************************************************************************)
EXTENDS Integers, Sequences, FiniteSets, TLC

VARIABLES
    mode,       \* which program is deployed: "poll" (bot.ts) or "webhook" (the server)
    env,        \* process.env: TELEGRAM_TOKEN, TELEGRAM_CHAT_ID, GITHUB_TOKEN/REPOSITORY, TELEGRAM_WEBHOOK_SECRET
    file,       \* state.json on disk
    inbox,      \* Telegram side: updates not yet confirmed, ascending update_id
    nextId,     \* Telegram side: update_id of the next update to arrive
    cycles,     \* number of poll cycles started
    pollPc,     \* position of main(): "idle" | "fetch" | "loop" | "await" |
                \*   "returned" (an early return) | "done" (state written) | "aborted" (main rejected)
    lastId,     \* main: const lastId
    batch,      \* main: data.result
    idx,        \* main: index of the update the for-loop is at (1-based)
    newLastId,  \* main: let newLastId
    pollAt,     \* main: which awaited call the handler of batch[idx] is at
    pollK,      \* main: index into the workflow list inside the /trigger loop
    pollLog,    \* calls to sendMessage / dispatchWorkflow made for batch[idx], in call order
    state,      \* main: const state, the map read by the first loadState()
    fetched,    \* history: how many times each update_id has been returned by getUpdates
    web         \* webhook server: one record per HTTP request

vars == <<mode, env, file, inbox, nextId, cycles, pollPc, lastId, batch, idx, newLastId,
          pollAt, pollK, pollLog, state, fetched, web>>

pollVars == <<cycles, pollPc, lastId, batch, idx, newLastId, pollAt, pollK, pollLog, state, fetched>>

----------------------------------------------------------------------------
(* Bounds of the model *)

MaxUpdates == 2     \* updates that arrive at Telegram in a run
MaxCycles == 2      \* poll cycles in a run
MaxReq == 1         \* HTTP requests in a run
MaxInFlight == 2    \* HTTP requests in a run of the several-requests specification

----------------------------------------------------------------------------
(* Constants of the program *)

BOT_UPDATE_KEY == "__bot_last_update_id__"

\* bot.ts: the list of workflow files
BOT_MONITOR_WORKFLOWS == <<"monitor-instocktrades.yml", "monitor-ebay.yml">>

\* webhook server: the list of {file, label}
MONITOR_WORKFLOWS ==
    << [file |-> "monitor-instocktrades.yml", label |-> "InStockTrades"],
       [file |-> "monitor-ebay.yml", label |-> "eBay"] >>

MSG_ALIVE == "Bot is alive and running."
MSG_ALIVE_WEBHOOK == "Bot is alive and running (webhook mode)."
MSG_TRIGGERING == "Triggering monitor workflows..."
MSG_DISPATCHED == "Monitor workflows dispatched."
MSG_TRIGGER_FAILED == "Failed to trigger monitor workflows."
MSG_STATUS == "Monitor status"
MSG_STATUS_FAILED == "Failed to fetch workflow status."

----------------------------------------------------------------------------
(* JavaScript primitives *)

Dec == <<"0", "1", "2", "3", "4", "5", "6", "7", "8", "9">>

\* String(n) for 0 <= n <= 99
String(n) == IF n < 10 THEN Dec[n + 1] ELSE Dec[(n \div 10) + 1] \o Dec[(n % 10) + 1]

\* Number(s) for the decimal strings String produces
Number(s) == CHOOSE n \in 0..99 : String(n) = s

MathMax(a, b) == IF a >= b THEN a ELSE b

IsSpace(a) == a = " "

RECURSIVE trimStart(_)
trimStart(t) == IF t # <<>> /\ IsSpace(Head(t)) THEN trimStart(Tail(t)) ELSE t

RECURSIVE trimEnd(_)
trimEnd(t) == IF t # <<>> /\ IsSpace(t[Len(t)]) THEN trimEnd(SubSeq(t, 1, Len(t) - 1)) ELSE t

\* String.prototype.trim
trim(t) == trimEnd(trimStart(t))

\* msg.text?.trim() ?? ""
textOf(u) == IF u.hasText THEN trim(u.text) ELSE <<>>

EmptyMap == [k \in {} |-> ""]

Put(m, k, v) == [x \in (DOMAIN m) \cup {k} |-> IF x = k THEN v ELSE m[x]]

\* state[key] ?? dflt
Get(m, k, dflt) == IF k \in DOMAIN m THEN m[k] ELSE dflt

----------------------------------------------------------------------------
(* Inputs *)


Texts ==
    { <<"/test">>, <<" ", "/trigger", " ">>, <<"/status">>, <<"/status", " ", "now">> }

\* What a chat other than the operator's sends: commands.
StrangerTexts == { <<" ", "/trigger", " ">>, <<"/status">> }

\* The contents an update can have (update_id is given on arrival).  The
\* operator's chat id is 42 (TELEGRAM_CHAT_ID is "42" when set), 7 is a
\* stranger's.
UpdateBodies ==
    { [hasMsg |-> FALSE, chat |-> 0, hasText |-> FALSE, text |-> <<>>] }
    \cup { [hasMsg |-> TRUE, chat |-> 42, hasText |-> FALSE, text |-> <<>>] }
    \cup { [hasMsg |-> TRUE, chat |-> 42, hasText |-> TRUE, text |-> t] : t \in Texts }
    \cup { [hasMsg |-> TRUE, chat |-> 7, hasText |-> TRUE, text |-> t] : t \in StrangerTexts }

MkUpdate(id, b) ==
    [update_id |-> id, hasMsg |-> b.hasMsg, chat |-> b.chat, hasText |-> b.hasText, text |-> b.text]

NoUpdateBody == [hasMsg |-> FALSE, chat |-> 0, hasText |-> FALSE, text |-> <<>>]

NoUpdate == MkUpdate(0, NoUpdateBody)

\* Results of a network call: the response is 2xx, the response is not 2xx,
\* or fetch() rejects (network error).  A call that throws before its fetch
\* because credentials are missing has the result "config"; a call that has
\* not returned yet has "pending".
Outcomes == {"ok", "http", "net"}

Envs ==
    [ token : {"", "T"}, chatId : {"", "42"}, gh : {"", "G"}, secret : {"", "s3"} ]

\* What another writer of state.json sets its key to.
OtherValues == {"y"}

\* A WorkflowRun | null as getLatestWorkflowRun returns it.
NoRun ==
    [present |-> FALSE, status |-> "", hasConclusion |-> FALSE, conclusion |-> "",
     event |-> "", created_at |-> ""]

Runs ==
    { NoRun,
      [present |-> TRUE, status |-> "completed", hasConclusion |-> TRUE, conclusion |-> "success",
       event |-> "schedule", created_at |-> "2024-01-02T03:04:05Z"],
      [present |-> TRUE, status |-> "in_progress", hasConclusion |-> FALSE, conclusion |-> "",
       event |-> "workflow_dispatch", created_at |-> "2024-01-02T03:04:05Z"] }

\* state.json before the first cycle: missing, not JSON, without the reserved
\* key, with it.
Files ==
    { [kind |-> "absent", map |-> EmptyMap],
      [kind |-> "corrupt", map |-> EmptyMap],
      [kind |-> "json", map |-> Put(EmptyMap, "other_key", "x")],
      [kind |-> "json", map |-> Put(Put(EmptyMap, BOT_UPDATE_KEY, "0"), "other_key", "x")] }

----------------------------------------------------------------------------
(* bot.ts *)

\* loadState(): {} when the file is absent or does not parse
loadState(f) == IF f.kind = "json" THEN f.map ELSE EmptyMap

\* saveState(state): the file holds exactly the map
saveState(m) == [kind |-> "json", map |-> m]

\* const lastId = Number(state[BOT_UPDATE_KEY] ?? "0")
readLastId(m) == Number(Get(m, BOT_UPDATE_KEY, "0"))

\* Mutant of persistInto: writes back the map of the first read (`state`)
\* instead of the one just re-read.
persistStale(fresh, n) == saveState(Put(state, BOT_UPDATE_KEY, String(n)))

\* The last three lines of main(): set the reserved key in the map just
\* re-read (freshState) and write it.
persistInto(fresh, n) == saveState(Put(fresh, BOT_UPDATE_KEY, String(n)))

\* Mutant of foldLastId: Math.min for Math.max.
foldLastIdMin(n, u) == IF n <= u.update_id THEN n ELSE u.update_id

\* Mutant of foldLastId: the position in data.result is kept instead of the
\* update_id, without Math.max.
foldLastIdIndex(n, u) == idx

\* newLastId = Math.max(newLastId, update.update_id)
foldLastId(n, u) == MathMax(n, u.update_id)

\* Mutant of mainAdmits: the chat id is not compared.
mainAdmitsAnyChat(u, chatId) == u.hasMsg

\* if (!msg || String(msg.chat.id) !== chatId) continue
mainAdmits(u, chatId) == u.hasMsg /\ String(u.chat) = chatId

\* The if / else-if chain of main(): which branch the text selects.
mainCommand(text) ==
    IF text = <<"/test">> THEN "test"
    ELSE IF text = <<"/trigger">> THEN "trigger"
    ELSE "none"

\* sendMessage awaits fetch and never looks at the response: it throws only
\* when fetch rejects.
sendMessageThrows(outcome) == outcome = "net"

\* dispatchWorkflow: throws when fetch rejects and when !res.ok
dispatchThrows(outcome) == outcome # "ok"

\* dispatchWorkflow: throws before any fetch when the credentials are missing
dispatchConfigured(e) == e.gh # ""

Call(op, what, lines) ==
    [op |-> op, what |-> what, lines |-> lines, res |-> "pending", run |-> NoRun]

Returned(log, i, outcome) == [log EXCEPT ![i].res = outcome]

\* Mutant of mainStep: a failed dispatch does not leave the loop.
mainStepNoFailFast(at, k, threw) ==
    CASE at = "alive" -> [at |-> IF threw THEN "abort" ELSE "advance", k |-> 0]
      [] at = "start" -> IF threw THEN [at |-> "abort", k |-> 0] ELSE [at |-> "dispatch", k |-> 1]
      [] at = "dispatch" ->
            IF k < Len(BOT_MONITOR_WORKFLOWS) THEN [at |-> "dispatch", k |-> k + 1]
            ELSE IF threw THEN [at |-> "trigfail", k |-> k]
            ELSE [at |-> "success", k |-> k]
      [] at = "success" -> [at |-> IF threw THEN "trigfail" ELSE "advance", k |-> k]
      [] at = "trigfail" -> [at |-> IF threw THEN "abort" ELSE "advance", k |-> k]

\* What main() does when the call at position `at` (workflow index k) returns
\* or throws: the next call, the end of this update's iteration ("advance"),
\* or the rejection of main() ("abort").
\*   "alive"    line 94       "start"   line 96      "dispatch" line 99
\*   "success"  line 101      "trigfail" line 104
mainStep(at, k, threw) ==
    CASE at = "alive" -> [at |-> IF threw THEN "abort" ELSE "advance", k |-> 0]
      [] at = "start" -> IF threw THEN [at |-> "abort", k |-> 0] ELSE [at |-> "dispatch", k |-> 1]
      [] at = "dispatch" ->
            IF threw THEN [at |-> "trigfail", k |-> k]
            ELSE IF k < Len(BOT_MONITOR_WORKFLOWS) THEN [at |-> "dispatch", k |-> k + 1]
            ELSE [at |-> "success", k |-> k]
      [] at = "success" -> [at |-> IF threw THEN "trigfail" ELSE "advance", k |-> k]
      [] at = "trigfail" -> [at |-> IF threw THEN "abort" ELSE "advance", k |-> k]

\* The call main() makes at a position.
mainCall(at, k) ==
    CASE at = "alive" -> Call("sendMessage", MSG_ALIVE, <<>>)
      [] at = "start" -> Call("sendMessage", MSG_TRIGGERING, <<>>)
      [] at = "dispatch" -> Call("dispatch", BOT_MONITOR_WORKFLOWS[k], <<>>)
      [] at = "success" -> Call("sendMessage", MSG_DISPATCHED, <<>>)
      [] at = "trigfail" -> Call("sendMessage", MSG_TRIGGER_FAILED, <<>>)

\* main() from position p on, up to the next await that waits for the
\* network: the call at p is made and logged; a dispatchWorkflow without
\* credentials throws at once (result "config") and main() goes on.
RECURSIVE mainEnter(_, _, _)
mainEnter(log, p, e) ==
    IF p.at \in {"advance", "abort"} THEN [log |-> log, at |-> p.at, k |-> p.k]
    ELSE IF p.at = "dispatch" /\ ~dispatchConfigured(e)
    THEN mainEnter(Append(log, [mainCall(p.at, p.k) EXCEPT !.res = "config"]),
                   mainStep(p.at, p.k, TRUE), e)
    ELSE [log |-> Append(log, mainCall(p.at, p.k)), at |-> p.at, k |-> p.k]

\* Mutant of fetchOffset: the stored id itself is the boundary.
fetchOffsetSame(l) == l

\* `getUpdates?offset=${lastId + 1}`
fetchOffset(l) == l + 1

\* getUpdates?offset=o: Telegram returns the unconfirmed updates with
\* update_id >= o, ascending, and forgets the ones below o.
getUpdates(o) == SelectSeq(inbox, LAMBDA u : u.update_id >= o)

Ids(b) == { b[i].update_id : i \in 1..Len(b) }

\* End of one iteration of the for-loop over data.result, n being newLastId:
\* either the loop goes on, or main() re-reads the file, sets the reserved key
\* and writes the file (lines 109-111).
FinishUpdate(i, n) ==
    IF i < Len(batch)
    THEN /\ pollPc' = "loop"
         /\ UNCHANGED file
    ELSE /\ pollPc' = "done"
         /\ file' = persistInto(loadState(file), n)

\* main() goes on from position p inside the iteration for batch[i].
PollGoOn(log, p, i, n) ==
    LET r == mainEnter(log, p, env)
    IN /\ pollLog' = r.log
       /\ IF r.at = "abort"
          THEN /\ pollPc' = "aborted"
               /\ pollAt' = "abort"
               /\ UNCHANGED <<file, pollK>>
          ELSE IF r.at = "advance"
          THEN /\ pollAt' = "none"
               /\ FinishUpdate(i, n)
               /\ UNCHANGED pollK
          ELSE /\ pollPc' = "await"
               /\ pollAt' = r.at
               /\ pollK' = r.k
               /\ UNCHANGED file

\* main() is started by the scheduler; runs to `await fetch(getUpdates)`
\* (lines 65-79).
PollStart ==
    /\ mode = "poll"
    /\ pollPc \in {"idle", "returned", "done", "aborted"}
    /\ cycles < MaxCycles
    /\ cycles' = cycles + 1
    /\ batch' = <<>>
    /\ idx' = 0
    /\ pollAt' = "none"
    /\ pollK' = 0
    /\ pollLog' = <<>>
    /\ IF env.token = "" \/ env.chatId = ""
       THEN /\ pollPc' = "returned"
            /\ UNCHANGED <<state, lastId, newLastId>>
       ELSE /\ pollPc' = "fetch"
            /\ state' = loadState(file)
            /\ lastId' = readLastId(loadState(file))
            /\ newLastId' = readLastId(loadState(file))
    /\ UNCHANGED <<mode, env, file, inbox, nextId, fetched, web>>

\* getUpdates returns (lines 77-85): fetch rejects, !res.ok, !data.ok, or a
\* batch; an empty batch returns from main() without touching the file.
PollFetch ==
    /\ pollPc = "fetch"
    /\ \E outcome \in Outcomes \cup {"notok"} :
          IF outcome = "net"
          THEN pollPc' = "aborted" /\ UNCHANGED <<inbox, batch, fetched>>
          ELSE IF outcome # "ok"
          THEN pollPc' = "returned" /\ UNCHANGED <<inbox, batch, fetched>>
          ELSE /\ batch' = getUpdates(fetchOffset(lastId))
               /\ inbox' = getUpdates(fetchOffset(lastId))
               /\ fetched' = [i \in DOMAIN fetched |->
                                IF i \in Ids(batch') THEN fetched[i] + 1 ELSE fetched[i]]
               /\ pollPc' = IF batch' = <<>> THEN "returned" ELSE "loop"
    /\ UNCHANGED <<mode, env, file, nextId, cycles, lastId, idx, newLastId, pollAt, pollK,
                   pollLog, state, web>>

\* One iteration of `for (const update of data.result)` up to its first await
\* (lines 86-96), or the whole iteration when it awaits nothing.
PollUpdate ==
    /\ pollPc = "loop"
    /\ LET u == batch[idx + 1]
           n == foldLastId(newLastId, u)
           cmd == IF mainAdmits(u, env.chatId) THEN mainCommand(textOf(u)) ELSE "none"
           first == CASE cmd = "test" -> "alive"
                      [] cmd = "trigger" -> "start"
                      [] OTHER -> "advance"
       IN /\ idx' = idx + 1
          /\ newLastId' = n
          /\ PollGoOn(<<>>, [at |-> first, k |-> 0], idx + 1, n)
    /\ UNCHANGED <<mode, env, inbox, nextId, cycles, lastId, batch, state, fetched, web>>

\* The call main() awaits returns; main() runs on to the next await, to the
\* end of the iteration, or rejects (main().catch(console.error), line 114).
PollReturn ==
    /\ pollPc = "await"
    /\ \E outcome \in Outcomes :
         LET threw == IF pollAt = "dispatch" THEN dispatchThrows(outcome)
                      ELSE sendMessageThrows(outcome)
         IN PollGoOn(Returned(pollLog, Len(pollLog), outcome),
                     mainStep(pollAt, pollK, threw), idx, newLastId)
    /\ UNCHANGED <<mode, env, inbox, nextId, cycles, lastId, batch, idx, newLastId, state,
                   fetched, web>>

\* An update reaches Telegram.  Updates that arrive while a cycle runs are
\* seen by the next getUpdates at the earliest, so arrivals are taken
\* between cycles.
Arrive ==
    /\ mode = "poll"
    /\ nextId <= MaxUpdates
    /\ pollPc \in {"idle", "returned", "done", "aborted"}
    /\ \E b \in UpdateBodies : inbox' = Append(inbox, MkUpdate(nextId, b))
    /\ nextId' = nextId + 1
    /\ UNCHANGED <<mode, env, file, web>>
    /\ UNCHANGED pollVars

\* Another writer of state.json sets a key of its own (read-modify-write)
\* while a poll cycle is between its first read and its write.
OtherWriter ==
    /\ pollPc \in {"fetch", "loop", "await"}
    /\ \E v \in OtherValues :
          /\ Get(loadState(file), "other_key", "") # v
          /\ file' = saveState(Put(loadState(file), "other_key", v))
    /\ UNCHANGED <<mode, env, inbox, nextId, web>>
    /\ UNCHANGED pollVars

----------------------------------------------------------------------------
(* Webhook server *)

\* process.env.TELEGRAM_WEBHOOK_PATH ?? "/telegram/webhook"
WEBHOOK_PATH == "/telegram/webhook"

\* new Date(created_at).toUTCString()
toUTCString(t) ==
    IF t = "2024-01-02T03:04:05Z" THEN "Tue, 02 Jan 2024 03:04:05 GMT" ELSE "Invalid Date"

\* formatRunStatus(run), as the parts of the rendered text
formatRunStatus(run) ==
    IF ~run.present THEN <<"no runs yet">>
    ELSE << (IF run.hasConclusion THEN run.conclusion ELSE run.status),
            run.event, toUTCString(run.created_at) >>

\* if (!msg || !expectedChatId) return; if (String(msg.chat.id) !== expectedChatId) return
handleAdmits(u, expectedChatId) ==
    u.hasMsg /\ expectedChatId # "" /\ String(u.chat) = expectedChatId

\* Mutant of handleCommand: text.startsWith(...) for text === ...
handleCommandPrefix(text) ==
    IF text # <<>> /\ Head(text) = "/test" THEN "test"
    ELSE IF text # <<>> /\ Head(text) = "/trigger" THEN "trigger"
    ELSE IF text # <<>> /\ Head(text) = "/status" THEN "status"
    ELSE "none"

\* The three `if (text === ...)` of handleMessage: which branch the text selects.
handleCommand(text) ==
    IF text = <<"/test">> THEN "test"
    ELSE IF text = <<"/trigger">> THEN "trigger"
    ELSE IF text = <<"/status">> THEN "status"
    ELSE "none"

\* sendTelegramMessage: throws when fetch rejects and when !res.ok
sendTelegramMessageThrows(outcome) == outcome # "ok"

\* sendTelegramMessage: throws before any fetch when token or chat id is missing
sendTelegramConfigured(e) == e.token # "" /\ e.chatId # ""

\* githubContext(): throws when GITHUB_TOKEN or GITHUB_REPOSITORY is missing
githubConfigured(e) == e.gh # ""

\* getLatestWorkflowRun / dispatchWorkflow: throw when fetch rejects and when !res.ok
githubThrows(outcome) == outcome # "ok"

\* Mutant of handleStep: the loop over MONITOR_WORKFLOWS stops one short.
handleStepSkipsLast(at, k, threw) ==
    CASE at = "alive" -> [at |-> IF threw THEN "throw" ELSE "return", k |-> 0]
      [] at = "start" -> IF threw THEN [at |-> "throw", k |-> 0] ELSE [at |-> "dispatch", k |-> 1]
      [] at = "dispatch" ->
            IF threw THEN [at |-> "trigfail", k |-> k]
            ELSE IF k + 1 < Len(MONITOR_WORKFLOWS) THEN [at |-> "dispatch", k |-> k + 1]
            ELSE [at |-> "success", k |-> k]
      [] at = "success" -> [at |-> IF threw THEN "trigfail" ELSE "return", k |-> k]
      [] at = "trigfail" -> [at |-> IF threw THEN "throw" ELSE "return", k |-> k]
      [] at = "join" -> [at |-> IF threw THEN "statusfail" ELSE "report", k |-> 0]
      [] at = "report" -> [at |-> IF threw THEN "statusfail" ELSE "return", k |-> 0]
      [] at = "statusfail" -> [at |-> IF threw THEN "throw" ELSE "return", k |-> 0]

\* Mutant of handleStep: a failed query does not fail the join
\* (Promise.allSettled for Promise.all), the report is sent with what came in.
handleStepPartialReport(at, k, threw) ==
    CASE at = "alive" -> [at |-> IF threw THEN "throw" ELSE "return", k |-> 0]
      [] at = "start" -> IF threw THEN [at |-> "throw", k |-> 0] ELSE [at |-> "dispatch", k |-> 1]
      [] at = "dispatch" ->
            IF threw THEN [at |-> "trigfail", k |-> k]
            ELSE IF k < Len(MONITOR_WORKFLOWS) THEN [at |-> "dispatch", k |-> k + 1]
            ELSE [at |-> "success", k |-> k]
      [] at = "success" -> [at |-> IF threw THEN "trigfail" ELSE "return", k |-> k]
      [] at = "trigfail" -> [at |-> IF threw THEN "throw" ELSE "return", k |-> k]
      [] at = "join" -> [at |-> "report", k |-> 0]
      [] at = "report" -> [at |-> IF threw THEN "statusfail" ELSE "return", k |-> 0]
      [] at = "statusfail" -> [at |-> IF threw THEN "throw" ELSE "return", k |-> 0]

\* What handleMessage does when the call at position `at` returns or throws:
\* the next call, its normal return ("return"), or a throw out of
\* handleMessage ("throw").
\*   "alive" line 132   "start" line 137   "dispatch" line 140   "success" line 142
\*   "trigfail" line 145   "join" line 152 (Promise.all)   "report" line 161
\*   "statusfail" line 164
handleStep(at, k, threw) ==
    CASE at = "alive" -> [at |-> IF threw THEN "throw" ELSE "return", k |-> 0]
      [] at = "start" -> IF threw THEN [at |-> "throw", k |-> 0] ELSE [at |-> "dispatch", k |-> 1]
      [] at = "dispatch" ->
            IF threw THEN [at |-> "trigfail", k |-> k]
            ELSE IF k < Len(MONITOR_WORKFLOWS) THEN [at |-> "dispatch", k |-> k + 1]
            ELSE [at |-> "success", k |-> k]
      [] at = "success" -> [at |-> IF threw THEN "trigfail" ELSE "return", k |-> k]
      [] at = "trigfail" -> [at |-> IF threw THEN "throw" ELSE "return", k |-> k]
      [] at = "join" -> [at |-> IF threw THEN "statusfail" ELSE "report", k |-> 0]
      [] at = "report" -> [at |-> IF threw THEN "statusfail" ELSE "return", k |-> 0]
      [] at = "statusfail" -> [at |-> IF threw THEN "throw" ELSE "return", k |-> 0]

\* Mutant of statusLines: the lines are in the order the queries completed.
statusLinesCompletionOrder(log, order) ==
    [i \in 1..Len(order) |->
        <<MONITOR_WORKFLOWS[order[i]].label>> \o formatRunStatus(log[order[i]].run)]

\* statuses.map(...): one line per entry of the Promise.all result, which is
\* in the order of MONITOR_WORKFLOWS whatever the completion order was.
statusLines(log, order) ==
    [j \in 1..Len(MONITOR_WORKFLOWS) |->
        <<MONITOR_WORKFLOWS[j].label>> \o formatRunStatus(log[j].run)]

\* The call handleMessage makes at a position.
handleCall(at, k, lines) ==
    CASE at = "alive" -> Call("sendMessage", MSG_ALIVE_WEBHOOK, <<>>)
      [] at = "start" -> Call("sendMessage", MSG_TRIGGERING, <<>>)
      [] at = "dispatch" -> Call("dispatch", MONITOR_WORKFLOWS[k].file, <<>>)
      [] at = "success" -> Call("sendMessage", MSG_DISPATCHED, <<>>)
      [] at = "trigfail" -> Call("sendMessage", MSG_TRIGGER_FAILED, <<>>)
      [] at = "report" -> Call("sendMessage", MSG_STATUS, lines)
      [] at = "statusfail" -> Call("sendMessage", MSG_STATUS_FAILED, <<>>)

\* MONITOR_WORKFLOWS.map(async ...): every query is started before any returns.
statusQueries(res) ==
    [j \in 1..Len(MONITOR_WORKFLOWS) |->
        [Call("getRuns", MONITOR_WORKFLOWS[j].file, <<>>) EXCEPT !.res = res]]

FreeRequest ==
    [pc |-> "free", method |-> "", url |-> "", header |-> "", body |-> "", upd |-> NoUpdate,
     status |-> 0, at |-> "none", k |-> 0, log |-> <<>>, order |-> <<>>, escaped |-> FALSE]

\* Mutant of serverCatch: the catch only logs and writes no response.
serverCatchLogsOnly(rec) == [rec EXCEPT !.pc = "done", !.escaped = TRUE]

\* The `catch` of the request handler (lines 214-217).
serverCatch(rec) ==
    [rec EXCEPT !.pc = "done", !.escaped = TRUE, !.status = IF @ = 0 THEN 500 ELSE @]

\* writeJson(res, code, ...): sends the response.
writeJson(rec, code) == [rec EXCEPT !.status = code]

\* handleMessage from position p on, up to the next await that waits for the
\* network: the call at p is made and logged; a call whose credentials are
\* missing throws at once (result "config") and handleMessage goes on.
RECURSIVE Enter(_, _, _)
Enter(rec, p, e) ==
    IF p.at = "return" THEN [rec EXCEPT !.pc = "done", !.at = "return"]
    ELSE IF p.at = "throw" THEN [serverCatch(rec) EXCEPT !.at = "throw"]
    ELSE IF p.at = "join"
    THEN IF githubConfigured(e)
         THEN [rec EXCEPT !.pc = "await", !.at = "join", !.k = 0,
                          !.log = @ \o statusQueries("pending")]
         ELSE Enter([rec EXCEPT !.log = @ \o statusQueries("config")],
                    handleStep("join", 0, TRUE), e)
    ELSE LET call == handleCall(p.at, p.k, statusLines(rec.log, rec.order))
             configured == IF p.at = "dispatch" THEN githubConfigured(e)
                           ELSE sendTelegramConfigured(e)
         IN IF configured
            THEN [rec EXCEPT !.pc = "await", !.at = p.at, !.k = p.k, !.log = Append(@, call)]
            ELSE Enter([rec EXCEPT !.log = Append(@, [call EXCEPT !.res = "config"])],
                       handleStep(p.at, p.k, TRUE), e)

\* handleMessage(update) up to its first await (lines 123-152).
handleMessage(rec, u, e) ==
    LET cmd == IF handleAdmits(u, e.chatId) THEN handleCommand(textOf(u)) ELSE "none"
        first == CASE cmd = "test" -> "alive"
                   [] cmd = "trigger" -> "start"
                   [] cmd = "status" -> "join"
                   [] OTHER -> "return"
    IN Enter(rec, [at |-> first, k |-> 0], e)

\* Mutant of ackAndHandle: the acknowledgement is not written before the
\* command runs.
handleWithoutAck(rec, u, e) == handleMessage(rec, u, e)

\* writeJson(res, 200, { ok: true }); await handleMessage(payload)   (lines 212-213)
ackAndHandle(rec, u, e) == handleMessage(writeJson(rec, 200), u, e)

Methods == {"GET", "POST"}
Urls == {"/healthz", WEBHOOK_PATH, "/other"}
Headers == {"", "s3", "wrong"}

\* Mutant of secretRejects: a request without the header passes.
secretRejectsOnlyWrong(e, h) == e.secret # "" /\ h # "" /\ h # e.secret

\* if (webhookSecret) { ... if (header !== webhookSecret) -> 401 }; `h` is
\* the x-telegram-bot-api-secret-token header, "" when it is absent.
secretRejects(e, h) == e.secret # "" /\ h # e.secret

\* The request handler up to `await readJsonBody(req)` (lines 193-211).
WebRequest(r) ==
    /\ mode = "webhook"
    /\ web[r].pc = "free"
    /\ \A q \in 1..(r - 1) : web[q].pc # "free"
    /\ \E m \in Methods, u \in Urls, h \in Headers :
         LET rec == [web[r] EXCEPT !.method = m, !.url = u, !.header = h]
         IN web' = [web EXCEPT ![r] =
              IF m = "GET" /\ u \in {"/", "/healthz"} THEN [writeJson(rec, 200) EXCEPT !.pc = "done"]
              ELSE IF m # "POST" \/ u # WEBHOOK_PATH THEN [writeJson(rec, 404) EXCEPT !.pc = "done"]
              ELSE IF secretRejects(env, h) THEN [writeJson(rec, 401) EXCEPT !.pc = "done"]
              ELSE [rec EXCEPT !.pc = "body"]]
    /\ UNCHANGED <<mode, env, file, inbox, nextId>>
    /\ UNCHANGED pollVars

\* Mutant of WebBody: the server handles one update at a time, a body is
\* taken up only when no other request waits for a call.
WebBodyOneAtATime(r) ==
    /\ web[r].pc = "body"
    /\ \A q \in (DOMAIN web) \ {r} : web[q].pc # "await"
    /\ \E b \in {"bad", "empty", "json"}, ub \in UpdateBodies :
         /\ b # "json" => ub = NoUpdateBody
         /\ LET rec == [web[r] EXCEPT !.body = b, !.upd = MkUpdate(IF b = "json" THEN r ELSE 0, ub)]
            IN web' = [web EXCEPT ![r] =
                 IF b = "bad" THEN serverCatch(rec)
                 ELSE IF b = "empty" THEN serverCatch(writeJson(rec, 200))
                 ELSE ackAndHandle(rec, rec.upd, env)]
    /\ UNCHANGED <<mode, env, file, inbox, nextId>>
    /\ UNCHANGED pollVars

\* readJsonBody returns or throws (JSON.parse); then the acknowledgement and
\* handleMessage(payload) up to its first await (lines 211-213).  An empty
\* body gives the payload null, and handleMessage throws on null.message.
WebBody(r) ==
    /\ web[r].pc = "body"
    /\ \E b \in {"bad", "empty", "json"}, ub \in UpdateBodies :
         /\ b # "json" => ub = NoUpdateBody
         /\ LET rec == [web[r] EXCEPT !.body = b, !.upd = MkUpdate(IF b = "json" THEN r ELSE 0, ub)]
            IN web' = [web EXCEPT ![r] =
                 IF b = "bad" THEN serverCatch(rec)
                 ELSE IF b = "empty" THEN serverCatch(writeJson(rec, 200))
                 ELSE ackAndHandle(rec, rec.upd, env)]
    /\ UNCHANGED <<mode, env, file, inbox, nextId>>
    /\ UNCHANGED pollVars

\* The sequential call handleMessage awaits returns (it is the last call made).
WebReturn(r) ==
    /\ web[r].pc = "await"
    /\ web[r].at # "join"
    /\ \E outcome \in Outcomes :
         LET rec == web[r]
             threw == IF rec.at = "dispatch" THEN githubThrows(outcome)
                      ELSE sendTelegramMessageThrows(outcome)
             rec1 == [rec EXCEPT !.log = Returned(@, Len(@), outcome)]
         IN web' = [web EXCEPT ![r] = Enter(rec1, handleStep(rec.at, rec.k, threw), env)]
    /\ UNCHANGED <<mode, env, file, inbox, nextId>>
    /\ UNCHANGED pollVars

\* One of the concurrent latest-run queries returns.  Promise.all rejects on
\* the first query that throws and resolves when the last one has returned;
\* queries that return after the rejection change nothing.
WebRunReturn(r, j) ==
    /\ web[r].pc \in {"await", "done"}
    /\ j \in 1..Len(web[r].log)
    /\ web[r].log[j].op = "getRuns"
    /\ web[r].log[j].res = "pending"
    /\ \E outcome \in Outcomes, run \in Runs :
         /\ outcome # "ok" => run = NoRun
         /\ LET rec == web[r]
                rec1 == [rec EXCEPT !.log = [Returned(@, j, outcome) EXCEPT ![j].run = run],
                                    !.order = Append(@, j)]
                allIn == \A i \in 1..Len(MONITOR_WORKFLOWS) : rec1.log[i].res = "ok"
            IN web' = [web EXCEPT ![r] =
                 IF rec.pc = "await" /\ rec.at = "join" /\ githubThrows(outcome)
                 THEN Enter(rec1, handleStep("join", 0, TRUE), env)
                 ELSE IF rec.pc = "await" /\ rec.at = "join" /\ allIn
                 THEN Enter(rec1, handleStep("join", 0, FALSE), env)
                 ELSE rec1]
    /\ UNCHANGED <<mode, env, file, inbox, nextId>>
    /\ UNCHANGED pollVars

----------------------------------------------------------------------------
(* The two deployments *)

Init ==
    /\ mode \in {"poll", "webhook"}
    /\ env \in Envs
    /\ mode = "poll" => env.secret = ""
    /\ file \in Files
    /\ mode = "webhook" => file.kind = "absent"
    /\ inbox = <<>>
    /\ nextId = 1
    /\ cycles = 0
    /\ pollPc = "idle"
    /\ lastId = 0
    /\ batch = <<>>
    /\ idx = 0
    /\ newLastId = 0
    /\ pollAt = "none"
    /\ pollK = 0
    /\ pollLog = <<>>
    /\ state = EmptyMap
    /\ fetched = [i \in 1..MaxUpdates |-> 0]
    /\ web = [r \in 1..MaxReq |-> FreeRequest]

Next ==
    \/ PollStart
    \/ PollFetch
    \/ PollUpdate
    \/ PollReturn
    \/ Arrive
    \/ OtherWriter
    \/ \E r \in 1..MaxReq : WebRequest(r)
    \/ \E r \in 1..MaxReq : WebBody(r)
    \/ \E r \in 1..MaxReq : WebReturn(r)
    \/ \E r \in 1..MaxReq, j \in 1..Len(MONITOR_WORKFLOWS) : WebRunReturn(r, j)

Spec == Init /\ [][Next]_vars

----------------------------------------------------------------------------
(* The webhook server with several requests in flight *)

\* What the requests of this specification are: POSTs to the webhook path of
\* a fully configured server without a secret, with an unparseable body or
\* with a message from the operator's chat; their calls hang, succeed or are
\* answered with an error status, and a job has no run or a completed one.
PairRequests ==
    \A r \in DOMAIN web :
        /\ web[r].method \in {"", "POST"}
        /\ web[r].url \in {"", WEBHOOK_PATH}
        /\ web[r].header = ""
        /\ web[r].body \in {"", "bad", "json"}
        /\ web[r].body = "json" => (web[r].upd.hasMsg /\ web[r].upd.chat = 42)
        /\ \A i \in 1..Len(web[r].log) :
              /\ web[r].log[i].res \in {"pending", "ok", "http"}
              /\ web[r].log[i].run.status # "in_progress"

InitPair ==
    /\ mode = "webhook"
    /\ env = [token |-> "T", chatId |-> "42", gh |-> "G", secret |-> ""]
    /\ file = [kind |-> "absent", map |-> EmptyMap]
    /\ inbox = <<>>
    /\ nextId = 1
    /\ cycles = 0
    /\ pollPc = "idle"
    /\ lastId = 0
    /\ batch = <<>>
    /\ idx = 0
    /\ newLastId = 0
    /\ pollAt = "none"
    /\ pollK = 0
    /\ pollLog = <<>>
    /\ state = EmptyMap
    /\ fetched = [i \in 1..MaxUpdates |-> 0]
    /\ web = [r \in 1..MaxInFlight |-> FreeRequest]

NextPair ==
    \/ \E r \in 1..MaxInFlight : WebRequest(r) /\ PairRequests'
    \/ \E r \in 1..MaxInFlight : WebBody(r) /\ PairRequests'
    \/ \E r \in 1..MaxInFlight : WebReturn(r) /\ PairRequests'
    \/ \E r \in 1..MaxInFlight, j \in 1..Len(MONITOR_WORKFLOWS) : WebRunReturn(r, j) /\ PairRequests'

SpecPair == InitPair /\ [][NextPair]_vars

----------------------------------------------------------------------------
(* Properties *)

\* max(p, max(update_id over B)), p when B is empty
MaxOf(p, B) == CHOOSE m \in {p} \cup Ids(B) : \A x \in {p} \cup Ids(B) : m >= x

FailedResults == {"http", "net", "config"}

DispatchIdx(L) == { i \in 1..Len(L) : L[i].op = "dispatch" }

SendIdx(L, text) == { i \in 1..Len(L) : L[i].op = "sendMessage" /\ L[i].what = text }

Files_bot == BOT_MONITOR_WORKFLOWS

Files_webhook == [j \in 1..Len(MONITOR_WORKFLOWS) |-> MONITOR_WORKFLOWS[j].file]

\* C1: in polling mode, the offset a poll cycle persists is
\* max(p, max(update_id over B)) for the previous offset p and the fetched
\* batch B; a cycle that fetched an empty batch leaves the offset at p.
C1_PersistedOffset ==
    /\ pollPc = "done" =>
          /\ file.kind = "json"
          /\ BOT_UPDATE_KEY \in DOMAIN file.map
          /\ file.map[BOT_UPDATE_KEY] = String(MaxOf(lastId, batch))
    /\ (pollPc = "returned" /\ env.token # "" /\ env.chatId # "") =>
          /\ batch = <<>>
          /\ readLastId(loadState(file)) = lastId

\* C1 witness: a second cycle (previous offset 1) has persisted after a non-empty batch.
C1_Witness == pollPc = "done" /\ lastId = 1 /\ batch # <<>>

\* C2: once a poll cycle that fetched a non-empty batch has ended, however its
\* handlers fared, the persisted offset covers the batch, and no update is
\* returned by getUpdates a second time.
C2_PersistedDespiteFailure ==
    /\ (pollPc \in {"done", "aborted", "returned"} /\ batch # <<>>) =>
          readLastId(loadState(file)) >= MaxOf(lastId, batch)
    /\ \A i \in DOMAIN fetched : fetched[i] <= 1

\* C3: while an update without a message, or from a chat other than the
\* operator's, is being handled (either mode), no sendMessage, dispatch or
\* run query has been made for it.
C3_NoCallsForStrangers ==
    /\ pollLog # <<>> =>
          /\ idx >= 1
          /\ batch[idx].hasMsg
          /\ String(batch[idx].chat) = env.chatId
    /\ \A r \in DOMAIN web :
          web[r].log # <<>> =>
              /\ web[r].upd.hasMsg
              /\ String(web[r].upd.chat) = env.chatId

\* C3 witness: the poller has gone past a stranger's /trigger without a call.
C3_Witness ==
    /\ idx >= 1
    /\ pollPc \in {"loop", "done"}
    /\ batch[idx].hasMsg
    /\ batch[idx].chat = 7
    /\ textOf(batch[idx]) = <<"/trigger">>
    /\ pollLog = <<>>

\* /trigger stops at the first failed dispatch and reports it once.
TriggerFailFast(L) ==
    \A i \in DispatchIdx(L) :
        L[i].res \in FailedResults =>
            /\ \A j \in DispatchIdx(L) : j <= i
            /\ Cardinality(SendIdx(L, MSG_TRIGGER_FAILED)) = 1

\* C4: in a /trigger invocation (either mode), once the dispatch of job k has
\* failed no later job is dispatched and exactly one trigger-failed
\* notification is sent.
C4_TriggerFailFast ==
    /\ TriggerFailFast(pollLog)
    /\ \A r \in DOMAIN web : TriggerFailFast(web[r].log)

\* C4 witness: the poller's dispatch of the first job failed; the second job
\* was never dispatched and the failure was notified.
C4_Witness ==
    /\ Len(pollLog) = 3
    /\ pollLog[2].op = "dispatch"
    /\ pollLog[2].res = "http"
    /\ pollLog[3].what = MSG_TRIGGER_FAILED
    /\ pollLog[3].res = "ok"

\* The dispatches of a /trigger invocation go through the job list in order,
\* one at a time, and the success notification follows the last one exactly
\* when all of them succeeded.
TriggerInOrder(L, files) ==
    LET D == DispatchIdx(L)
        S == SendIdx(L, MSG_DISPATCHED)
    IN /\ Cardinality(D) <= Len(files)
       /\ \A i \in D : L[i].what = files[Cardinality({j \in D : j <= i})]
       /\ \A i \in D : \A j \in 1..(i - 1) : L[j].res # "pending"
       /\ Cardinality(S) <= 1
       /\ S # {} <=> (Cardinality(D) = Len(files) /\ \A i \in D : L[i].res = "ok")
       /\ \A n \in S : \A i \in D : i < n

\* C5: in a /trigger invocation where every dispatch succeeds, each job is
\* dispatched exactly once, in list order, one at a time, and one success
\* notification is sent after the last dispatch returned.
C5_TriggerAllInOrder ==
    /\ TriggerInOrder(pollLog, Files_bot)
    /\ \A r \in DOMAIN web : TriggerInOrder(web[r].log, Files_webhook)

\* C5 witness: a webhook /trigger ran to its success notification.
C5_Witness ==
    /\ web[1].pc = "done"
    /\ Len(web[1].log) = 4
    /\ web[1].log[4].what = MSG_DISPATCHED
    /\ web[1].log[4].res = "ok"

IsStatusLog(L) ==
    /\ Len(L) >= Len(MONITOR_WORKFLOWS)
    /\ \A j \in 1..Len(MONITOR_WORKFLOWS) : L[j].op = "getRuns"

ReportInDeclaredOrder(L) ==
    /\ (\A j \in 1..Len(MONITOR_WORKFLOWS) : L[j].res = "ok") => SendIdx(L, MSG_STATUS) # {}
    /\ \A i \in SendIdx(L, MSG_STATUS) :
          /\ Len(L[i].lines) = Len(MONITOR_WORKFLOWS)
          /\ \A j \in 1..Len(MONITOR_WORKFLOWS) :
                LET line == L[i].lines[j]
                    run == L[j].run
                IN /\ line[1] = MONITOR_WORKFLOWS[j].label
                   /\ IF run.present
                      THEN /\ Len(line) = 4
                           /\ line[2] = (IF run.hasConclusion THEN run.conclusion ELSE run.status)
                           /\ line[3] = run.event
                      ELSE line = <<MONITOR_WORKFLOWS[j].label, "no runs yet">>

\* C6: a webhook /status whose queries all succeeded sends a report with one
\* line per job in the declared order, whatever order the queries completed
\* in; a job without a run is rendered "no runs yet".
C6_ReportInDeclaredOrder ==
    \A r \in DOMAIN web : IsStatusLog(web[r].log) => ReportInDeclaredOrder(web[r].log)

\* C6 witness: the second job's query returned first, the first job has no
\* run, and the report was sent.
C6_Witness ==
    /\ web[1].order = <<2, 1>>
    /\ SendIdx(web[1].log, MSG_STATUS) # {}
    /\ ~web[1].log[1].run.present
    /\ web[1].log[2].run.present

\* C7: a /status in which some latest-run query failed sends no report and
\* exactly one status-failed notification.
C7_NoPartialReport ==
    \A r \in DOMAIN web :
        LET L == web[r].log
        IN (\E j \in 1..Len(L) : L[j].op = "getRuns" /\ L[j].res \in FailedResults) =>
              /\ SendIdx(L, MSG_STATUS) = {}
              /\ Cardinality(SendIdx(L, MSG_STATUS_FAILED)) = 1

\* C7 witness: the second query failed first, the first one then succeeded,
\* and the failure notification went out.
C7_Witness ==
    /\ web[1].pc = "done"
    /\ web[1].order = <<2, 1>>
    /\ web[1].log[2].res = "http"
    /\ web[1].log[1].res = "ok"
    /\ web[1].log[3].res = "ok"

\* The behaviour the poller selected for batch[idx], read off its first call.
PollSelected ==
    IF pollLog = <<>> THEN "none"
    ELSE IF pollLog[1].op = "getRuns" THEN "status"
    ELSE IF pollLog[1].what = MSG_ALIVE THEN "test"
    ELSE IF pollLog[1].what = MSG_TRIGGERING THEN "trigger"
    ELSE "other"

\* C8: for the update the poller has handled, the poller takes the admit/drop
\* decision of the webhook server and selects the behaviour the webhook
\* server selects for the same text.
C8_SameSelection ==
    (mode = "poll" /\ idx >= 1 /\ pollPc \in {"loop", "await", "done", "aborted"}) =>
        LET u == batch[idx]
        IN /\ mainAdmits(u, env.chatId) <=> handleAdmits(u, env.chatId)
           /\ handleAdmits(u, env.chatId) => PollSelected = handleCommand(textOf(u))

\* C9: the step in which a poll cycle writes state.json leaves every key but
\* the reserved one as the file had it at that moment (the re-read), and sets
\* the reserved key.
C9_FramePreserved ==
    [][ (pollPc # "done" /\ pollPc' = "done") =>
          LET old == loadState(file)
          IN /\ file'.kind = "json"
             /\ DOMAIN file'.map = (DOMAIN old) \cup {BOT_UPDATE_KEY}
             /\ \A k \in (DOMAIN old) \ {BOT_UPDATE_KEY} : file'.map[k] = old[k]
             /\ file'.map[BOT_UPDATE_KEY] = String(newLastId') ]_vars

\* C9 witness: a cycle has written the file, and the other key holds a value
\* written after the cycle's first read.
C9_Witness ==
    /\ pollPc = "done"
    /\ "other_key" \in DOMAIN file.map
    /\ Get(state, "other_key", "") # file.map["other_key"]

\* C10: in webhook mode no call of a command is made before the 200 is
\* written, and a response once written is never changed by what the
\* command's calls do later.
C10_AckBeforeCalls ==
    [][ \A r \in DOMAIN web :
          /\ web'[r].log # <<>> => web'[r].status = 200
          /\ web[r].status # 0 => web'[r].status = web[r].status ]_vars

\* C10 witness: a call of an acknowledged request failed with a network
\* error that escaped handleMessage, and the response is still the 200.
C10_Witness ==
    /\ web[1].pc = "done"
    /\ web[1].escaped
    /\ web[1].status = 200
    /\ \E i \in 1..Len(web[1].log) : web[1].log[i].res = "net"

\* C11: with a webhook secret configured, a POST to the webhook path whose
\* secret header is absent or differs from the secret is answered 401, its
\* body is never read or handed to handleMessage, and no call is made for it.
C11_SecretGate ==
    \A r \in DOMAIN web :
        (/\ web[r].pc # "free"
         /\ env.secret # ""
         /\ web[r].method = "POST"
         /\ web[r].url = WEBHOOK_PATH
         /\ web[r].header # env.secret) =>
            /\ web[r].pc = "done"
            /\ web[r].status = 401
            /\ web[r].body = ""
            /\ web[r].upd = NoUpdate
            /\ web[r].log = <<>>
            /\ ~web[r].escaped

\* C11 witness: a POST to the webhook path without the header was answered
\* 401 while the secret is set.
C11_Witness ==
    /\ env.secret = "s3"
    /\ web[1].method = "POST"
    /\ web[1].url = WEBHOOK_PATH
    /\ web[1].header = ""
    /\ web[1].status = 401

CommandTexts == { <<"/test">>, <<"/trigger">>, <<"/status">> }

\* The update comes from the operator's chat and its trimmed text is none of
\* the three commands.
Unrecognised(u) ==
    /\ u.hasMsg
    /\ env.chatId # ""
    /\ String(u.chat) = env.chatId
    /\ textOf(u) \notin CommandTexts

\* C12: in both modes an admitted update whose trimmed text is not exactly
\* /test, /trigger or /status (a command followed by an argument and a message
\* without text included) causes no sendMessage, no dispatch and no run
\* query; the poller goes on with the batch and the webhook request ends
\* acknowledged without an error.
C12_UnrecognisedIgnored ==
    /\ (mode = "poll" /\ idx >= 1 /\ Unrecognised(batch[idx])) =>
          /\ pollLog = <<>>
          /\ pollPc \in {"loop", "done"}
    /\ \A r \in DOMAIN web :
          (web[r].body = "json" /\ Unrecognised(web[r].upd)) =>
              /\ web[r].log = <<>>
              /\ web[r].pc = "done"
              /\ web[r].status = 200
              /\ ~web[r].escaped

\* C12 witness: the webhook server has handled the operator's "/status now".
C12_Witness ==
    /\ web[1].pc = "done"
    /\ web[1].upd.hasMsg
    /\ web[1].upd.chat = 42
    /\ env.chatId = "42"
    /\ web[1].upd.text = <<"/status", " ", "now">>
    /\ web[1].log = <<>>

\* C12 witness in polling mode: the loop has gone past the operator's
\* "/status now" without a call.
C12_WitnessPoll ==
    /\ idx >= 1
    /\ pollPc \in {"loop", "done"}
    /\ batch[idx].chat = 42
    /\ batch[idx].text = <<"/status", " ", "now">>
    /\ pollLog = <<>>

\* C13: a poll cycle that finds nothing new (every update that has arrived
\* was already returned by getUpdates to an earlier cycle) fetches an empty
\* batch, makes no sendMessage and no dispatch, and leaves the persisted
\* offset as it found it.
C13_RerunIsNoOp ==
    (/\ cycles >= 2
     /\ pollPc \in {"loop", "await", "done", "aborted", "returned"}
     /\ \A i \in 1..(nextId - 1) : fetched[i] >= (IF i \in Ids(batch) THEN 2 ELSE 1)) =>
        /\ batch = <<>>
        /\ pollLog = <<>>
        /\ readLastId(loadState(file)) = lastId

\* The value of the reserved key in state.json as a number, 0 when the file
\* or the key is missing.
OffsetOf(f) ==
    IF f.kind = "json" /\ BOT_UPDATE_KEY \in DOMAIN f.map
    THEN CHOOSE n \in 0..99 : String(n) = f.map[BOT_UPDATE_KEY]
    ELSE 0

\* C14: no step of any poll cycle (cycles with an empty batch, with failing
\* handlers, and aborted cycles included) lowers the persisted offset: the
\* value of the reserved key after a step is at least the value before it.
C14_OffsetMonotonic ==
    [][ OffsetOf(file') >= OffsetOf(file) ]_vars

\* C14 witness: the second cycle of a run has raised the persisted offset
\* from 1 to 2.
C14_Witness ==
    /\ cycles = 2
    /\ pollPc = "done"
    /\ lastId = 1
    /\ OffsetOf(file) = 2

\* Some call of the log failed with an HTTP error status or a network error.
RemoteFailure(L) == \E i \in 1..Len(L) : L[i].res \in {"http", "net"}

\* C15: a call of a command handler that fails with a transport or remote
\* error never rejects main() (the poll cycle goes on with the batch and
\* reaches its write), and in webhook mode the request still ends with its
\* response written.
C15_ErrorsContained ==
    /\ RemoteFailure(pollLog) => pollPc # "aborted"
    /\ \A r \in DOMAIN web :
          (RemoteFailure(web[r].log) /\ web[r].pc = "done") => web[r].status # 0

\* The update carries one of the three commands and the configuration the
\* command needs is missing: the operator's chat id, or, for the operator's
\* message, the messaging token or (for /trigger and /status) the
\* automation-platform credentials.
ConfigMissingFor(u) ==
    /\ u.hasMsg
    /\ textOf(u) \in CommandTexts
    /\ \/ env.chatId = ""
       \/ /\ String(u.chat) = env.chatId
          /\ \/ env.token = ""
             \/ env.gh = "" /\ textOf(u) \in { <<"/trigger">>, <<"/status">> }

\* C16: a webhook request handled while the configuration its command needs
\* is missing is answered 500 and no call of it reaches the network.
C16_ConfigError500 ==
    \A r \in DOMAIN web :
        (web[r].body = "json" /\ ConfigMissingFor(web[r].upd)) =>
            /\ web[r].pc = "done"
            /\ web[r].status = 500
            /\ \A i \in 1..Len(web[r].log) : web[r].log[i].res = "config"

\* Every call of the log has returned successfully.
AllOk(L) == L # <<>> /\ \A i \in 1..Len(L) : L[i].res = "ok"

\* The next step of request r can be taken: it can arrive, its body can be
\* read and its command started, and a call it waits for can return.
CanProceed(r) ==
    /\ (web[r].pc = "free" /\ \A p \in 1..(r - 1) : web[p].pc # "free") => ENABLED WebRequest(r)
    /\ web[r].pc = "body" => ENABLED WebBody(r)
    /\ (web[r].pc = "await" /\ web[r].at # "join") => ENABLED WebReturn(r)
    /\ (web[r].pc = "await" /\ web[r].at = "join") =>
          \E j \in 1..Len(MONITOR_WORKFLOWS) : ENABLED WebRunReturn(r, j)

\* C17: a POST to the webhook path whose body does not parse as JSON is
\* answered 500, nothing of it reaches handleMessage and no call is made for
\* it; the server goes on serving: a request that comes later can arrive and
\* proceed as any other.
C17_BadBodyIs500 ==
    \A r \in DOMAIN web :
        web[r].body = "bad" =>
            /\ web[r].pc = "done"
            /\ web[r].status = 500
            /\ web[r].upd = NoUpdate
            /\ web[r].log = <<>>
            /\ \A q \in DOMAIN web : q > r => CanProceed(q)

\* C17 witness: the first request had an unparseable body and got its 500;
\* the command of the request after it ran to its normal end.
C17_Witness ==
    /\ web[1].body = "bad"
    /\ web[1].status = 500
    /\ web[2].pc = "done"
    /\ web[2].at = "return"
    /\ web[2].status = 200
    /\ AllOk(web[2].log)

\* The trigger-failed notification is attempted only after a dispatch
\* failed, and never together with the success notification.
FailureOnlyAfterFailedDispatch(L) ==
    /\ SendIdx(L, MSG_TRIGGER_FAILED) # {} =>
          \E i \in DispatchIdx(L) : L[i].res \in FailedResults
    /\ SendIdx(L, MSG_DISPATCHED) = {} \/ SendIdx(L, MSG_TRIGGER_FAILED) = {}

\* C18: in a /trigger invocation (either mode) the trigger-failed
\* notification is sent only if a dispatch of the invocation failed, and the
\* success and the failure notification are never both attempted.
C18_FailureOnlyAfterFailedDispatch ==
    /\ FailureOnlyAfterFailedDispatch(pollLog)
    /\ \A r \in DOMAIN web : FailureOnlyAfterFailedDispatch(web[r].log)

\* Request r waits for a call that has not returned.
Blocked(r) ==
    /\ web[r].pc = "await"
    /\ \E i \in 1..Len(web[r].log) : web[r].log[i].res = "pending"

\* C19: webhook requests are handled independently: whatever the other
\* requests wait for, a request can arrive, be acknowledged, filtered and
\* routed, and each call of its command can return; and a step taken for one
\* request leaves the records of all the others as they were.
C19_Independent ==
    [][ /\ \A r \in DOMAIN web :
              (\E q \in (DOMAIN web) \ {r} : Blocked(q)) => CanProceed(r)
        /\ \A r \in DOMAIN web :
              web'[r] # web[r] => \A q \in (DOMAIN web) \ {r} : web'[q] = web[q] ]_vars

\* C19 witness: the first request still waits for a call that hangs, and the
\* command of the second request, which came after it, has run to its end
\* with every call answered.
C19_Witness ==
    /\ Blocked(1)
    /\ web[2].pc = "done"
    /\ web[2].at = "return"
    /\ web[2].status = 200
    /\ AllOk(web[2].log)

\* C20: a poll cycle that is about to fetch has taken the value of the
\* reserved key as its previous offset, 0 when state.json is absent, does not
\* parse or has no such key, and the cycle goes on to the fetch; the batch it
\* gets holds no update at or below that offset, and while it is handled it
\* is exactly the updates above it (boundary previous offset + 1).
C20_FetchBoundary ==
    /\ pollPc = "fetch" => lastId = OffsetOf(file)
    /\ \A i \in Ids(batch) : i >= lastId + 1
    /\ pollPc \in {"loop", "await"} => Ids(batch) = (lastId + 1)..(nextId - 1)

\* C20 witness: state.json does not parse, the cycle took 0 as the previous
\* offset and fetched update 1.
C20_Witness ==
    /\ file.kind = "corrupt"
    /\ pollPc = "loop"
    /\ lastId = 0
    /\ 1 \in Ids(batch)

====
